---------------------------- MODULE Spec2Model ----------------------------
(***************************************************************************)
(* VFX Image Processor: the command-based undo/redo history, the          *)
(* asynchronous single-image processing task and the synchronous batch    *)
(* pipeline of src/src/gui/main_window.py, src/src/processing/commands.py *)
(* and src/src/processing/batch_processor.py.                             *)
(*                                                                         *)
(* A path is a record [dir, name]; name is the sequence of the pieces the *)
(* code concatenates ("temp_" + basename), so that deriving a temporary   *)
(* path is the string operation the code performs.  The effect engine     *)
(* (image_processor_rust) is external: a call either writes its output    *)
(* path and returns it, or raises.  The progress values the engine feeds  *)
(* to update_progress during one call are not modelled.                   *)
(***************************************************************************)
EXTENDS Integers, Sequences, FiniteSets, Bags, TLC

VARIABLES
    current_image,            \* MainWindow.current_image (NoPath: None)
    current_processed_image,  \* MainWindow.current_processed_image
    displayed,                \* path of the pixmap on image_label
    progress_visible,         \* progress_bar.isVisible()
    batch_files,              \* MainWindow.batch_files
    effects_queue,            \* BatchProcessor.effects_queue
    processed_images,         \* BatchProcessor.processed_images
    undo_stack,               \* QUndoStack: the commands it owns, oldest first
    index,                    \* QUndoStack.index()
    running,                  \* started ProcessingThreads whose run() is not over
    events,                   \* emitted finished signals not yet delivered
    disk,                     \* the temporary files that exist
    frames,                   \* the activations of process_batch, innermost last
    script                    \* the scenario a scripted run follows (NoScript: none)

vars == <<current_image, current_processed_image, displayed, progress_visible,
          batch_files, effects_queue, processed_images, undo_stack,
          index, running, events, disk, frames, script>>

windowVars == <<current_image, current_processed_image, displayed, progress_visible>>
stackVars == <<undo_stack, index>>
taskVars == <<running, events>>
batchVars == <<batch_files, effects_queue, processed_images, frames>>

-----------------------------------------------------------------------------
(* Bounds of the exploration. *)

\* an effect button is pressed only while fewer effects than this are queued
MaxPush == 2
\* files added to batch_files
MaxFiles == 2
\* asynchronous tasks in flight (running or with an undelivered signal)
MaxTasks == 1
\* activations of process_batch nested through processEvents
MaxDepth == 2
\* effects already queued when a batch specification starts
MaxQueue == 3
\* commands pushed by a scripted run
MaxScript == 3

-----------------------------------------------------------------------------
(* Paths, files and effects. *)

NoPath == [dir |-> "", name |-> <<>>]

TempDir == "tmp"

Originals ==
    { [dir |-> "d1", name |-> <<"a.png">>],
      [dir |-> "d2", name |-> <<"a.png">>] }

Effects == {"blur", "sepia"}

NoScript == [phase |-> "free"]

NoState == [path |-> NoPath, effect |-> "none"]

ImageState(path, effect) == [path |-> path, effect |-> effect]

\* Path(p).name
Basename(p) == p.name

\* get_temp_path without the "temp_" in front of the file's name
get_temp_path_bare(original_path) ==
    [dir |-> TempDir, name |-> Basename(original_path)]

\* BatchProcessor.get_temp_path
get_temp_path(original_path) ==
    [dir |-> TempDir, name |-> <<"temp_">> \o Basename(original_path)]

\* Path(p).exists() for the paths the program handles
Exists(p) == p \in Originals \/ p \in disk



-----------------------------------------------------------------------------
(* The undo stack and its commands. *)

\* ImageProcessCommand.__init__; id numbers the commands in the order of
\* their creation and stands for the object's identity
ImageProcessCommand(id, effect_type) ==
    [id          |-> id,
     effect_type |-> effect_type,
     old_state   |-> ImageState(current_image, "none"),
     new_state   |-> NoState]

\* ProcessingThread.__init__, and the command its finished signal is bound to
Task(input_path, effect_type, output_path, command) ==
    [input_path |-> input_path, effect_type |-> effect_type,
     output_path |-> output_path, command |-> command]

InFlight == BagCardinality(running) + Len(events)

\* MainWindow.load_specific_image
load_specific_image(file_name) ==
    /\ current_image' = file_name
    /\ displayed' = file_name

\* MainWindow.process_image_internal
process_image_internal(effect_type, command) ==
    IF current_image = NoPath
    THEN UNCHANGED <<progress_visible, running>>
    ELSE /\ progress_visible' = TRUE
         /\ running' = running (+) SetToBag({Task(current_image, effect_type,
                                        get_temp_path(current_image), command)})

\* redo without the new_state test: the effect is applied again every time
Command_redo_again(cmd) ==
    /\ process_image_internal(cmd.effect_type, cmd.id)
    /\ UNCHANGED <<current_image, displayed>>

\* redo loading the state before the effect where it should load the result
Command_redo_old(cmd) ==
    IF cmd.new_state # NoState
    THEN /\ load_specific_image(cmd.old_state.path)
         /\ UNCHANGED <<progress_visible, running>>
    ELSE /\ process_image_internal(cmd.effect_type, cmd.id)
         /\ UNCHANGED <<current_image, displayed>>

\* ImageProcessCommand.redo
Command_redo(cmd) ==
    IF cmd.new_state # NoState
    THEN /\ load_specific_image(cmd.new_state.path)
         /\ UNCHANGED <<progress_visible, running>>
    ELSE /\ process_image_internal(cmd.effect_type, cmd.id)
         /\ UNCHANGED <<current_image, displayed>>

\* ImageProcessCommand.undo
Command_undo(cmd) ==
    load_specific_image(cmd.old_state.path)

\* a push that keeps the undone commands
PushKeeps_all == undo_stack

\* QUndoStack.push: the commands kept below the new one
PushKeeps == SubSeq(undo_stack, 1, index)

\* a step of the main thread's event loop may run a handler: no activation of
\* process_batch, or the innermost one is inside processEvents
EventLoop == IF frames = <<>> THEN TRUE ELSE frames[Len(frames)].pc = "yield"

\* MainWindow.process_image: an effect button, enabled once an image is
\* loaded.  QUndoStack.push calls the command's redo(), deletes the undone
\* commands and appends the command.
process_image(effect_type) ==
    /\ EventLoop
    /\ current_image # NoPath
    /\ LET command == ImageProcessCommand(Len(effects_queue) + 1, effect_type) IN
         /\ Command_redo(command)
         /\ undo_stack' = Append(PushKeeps, command)
         /\ index' = Len(PushKeeps) + 1
    /\ effects_queue' = Append(effects_queue, effect_type)
    /\ UNCHANGED <<current_processed_image, batch_files, processed_images,
                   events, disk, frames>>

\* QUndoStack.canUndo and canRedo
canUndo == index > 0

canRedo == index < Len(undo_stack)

\* undo taking the undone command's effect off the batch queue again
Undo_unqueues ==
    /\ EventLoop
    /\ canUndo
    /\ Command_undo(undo_stack[index])
    /\ index' = index - 1
    /\ effects_queue' = SubSeq(effects_queue, 1, Len(effects_queue) - 1)
    /\ UNCHANGED <<current_processed_image, progress_visible, undo_stack,
                   taskVars, disk, batch_files, processed_images, frames>>

\* the undo action of the QUndoStack (enabled while canUndo())
Undo ==
    /\ EventLoop
    /\ canUndo
    /\ Command_undo(undo_stack[index])
    /\ index' = index - 1
    /\ UNCHANGED <<current_processed_image, progress_visible, undo_stack,
                   taskVars, disk, batchVars>>

\* the redo action of the QUndoStack (enabled while canRedo())
Redo ==
    /\ EventLoop
    /\ canRedo
    /\ Command_redo(undo_stack[index + 1])
    /\ index' = index + 1
    /\ UNCHANGED <<current_processed_image, undo_stack, events, disk, batchVars>>

-----------------------------------------------------------------------------
(* Loading images. *)

\* the selections a file dialog returns: one or two files
Selections ==
    { <<f>> : f \in Originals } \cup { <<f, g>> : f \in Originals, g \in Originals }

\* MainWindow.load_image with a non-empty selection
load_image(file_names) ==
    /\ EventLoop
    /\ Len(batch_files) + Len(file_names) - 1 <= MaxFiles
    /\ load_specific_image(file_names[1])
    /\ batch_files' = batch_files \o Tail(file_names)
    /\ UNCHANGED <<current_processed_image, progress_visible, effects_queue,
                   processed_images, frames, stackVars, taskVars, disk>>

\* MainWindow.load_batch_images with a non-empty selection
load_batch_images(file_names) ==
    /\ EventLoop
    /\ Len(batch_files) + Len(file_names) <= MaxFiles
    /\ batch_files' = batch_files \o file_names
    /\ UNCHANGED <<windowVars, effects_queue, processed_images, frames,
                   stackVars, taskVars, disk>>

\* MainWindow.preview_batch_image for the clicked row i of batch_list: the
\* first file of batch_files with the row's name is loaded
preview_batch_image(i) ==
    /\ EventLoop
    /\ i \in 1..Len(batch_files)
    /\ LET first == CHOOSE j \in 1..Len(batch_files) :
                      /\ Basename(batch_files[j]) = Basename(batch_files[i])
                      /\ \A k \in 1..(j - 1) :
                            Basename(batch_files[k]) # Basename(batch_files[i])
       IN load_specific_image(batch_files[first])
    /\ UNCHANGED <<current_processed_image, progress_visible, batchVars,
                   stackVars, taskVars, disk>>

-----------------------------------------------------------------------------
(* The asynchronous processing task. *)

\* ProcessingThread.run on a worker thread, the engine returning output_path:
\* the output file is written and the finished signal is emitted
run_finished(t) ==
    /\ BagIn(t, running)
    /\ Exists(t.input_path)
    /\ running' = running (-) SetToBag({t})
    /\ disk' = disk \cup {t.output_path}
    /\ events' = Append(events, [result_path |-> t.output_path,
                                 command |-> t.command])
    /\ UNCHANGED <<windowVars, batchVars, stackVars>>

\* run emitting finished although the engine raised
run_raised_emits(t) ==
    /\ BagIn(t, running)
    /\ running' = running (-) SetToBag({t})
    /\ events' = Append(events, [result_path |-> t.output_path,
                                 command |-> t.command])
    /\ UNCHANGED <<windowVars, batchVars, stackVars, disk>>

\* ProcessingThread.run on a worker thread, the engine raising: the error is
\* logged and nothing is emitted
run_raised(t) ==
    /\ BagIn(t, running)
    /\ running' = running (-) SetToBag({t})
    /\ UNCHANGED <<windowVars, batchVars, stackVars, events, disk>>

\* command.new_state = ImageState(result_path, command.effect_type); a
\* command the stack has deleted is an object nothing reads any more
SetNewState(command, result_path) ==
    [p \in DOMAIN undo_stack |->
        IF undo_stack[p].id = command
        THEN [undo_stack[p] EXCEPT !.new_state =
                 ImageState(result_path, undo_stack[p].effect_type)]
        ELSE undo_stack[p]]

\* processing_complete without its two checks of the result
processing_complete_unchecked(loadable) ==
    /\ EventLoop
    /\ events # <<>>
    /\ LET ev == Head(events) IN
         /\ events' = Tail(events)
         /\ progress_visible' = FALSE
         /\ displayed' = ev.result_path
         /\ current_processed_image' = ev.result_path
         /\ undo_stack' = SetNewState(ev.command, ev.result_path)
    /\ UNCHANGED <<current_image, index, running, disk, batchVars>>

\* MainWindow.processing_complete for the oldest undelivered finished signal;
\* loadable: the result file exists and QPixmap decodes it
processing_complete(loadable) ==
    /\ EventLoop
    /\ events # <<>>
    /\ LET ev == Head(events) IN
         /\ events' = Tail(events)
         /\ progress_visible' = FALSE
         /\ IF ~loadable
            THEN UNCHANGED <<current_processed_image, displayed, undo_stack>>
            ELSE /\ displayed' = ev.result_path
                 /\ current_processed_image' = ev.result_path
                 /\ undo_stack' = SetNewState(ev.command, ev.result_path)
    /\ UNCHANGED <<current_image, index, running, disk, batchVars>>

-----------------------------------------------------------------------------
(* Batch processing.  An activation of process_batch is a frame: the loop    *)
(* variables of the code, and a record of what the activation did: the       *)
(* engine calls it made (calls), the progress values it set (progress),      *)
(* whether an engine call raised (raised), whether an engine call was made   *)
(* after one had raised (went_on), and whether no call for the current file  *)
(* raised (file_ok).  Python's list iterators look at the list's length at   *)
(* every step, so files and effects appended by a handler that ran inside    *)
(* processEvents are iterated too.                                           *)

\* the percentage rounded to the nearest integer instead of truncated
Progress_rounded(completed_operations, total_operations) ==
    (completed_operations * 200 + total_operations) \div (2 * total_operations)

\* int((completed_operations / total_operations) * 100): the double quotient,
\* times 100, truncated.  For every 0 <= c <= t <= 40 the doubles give the
\* same integer as the truncating integer division used here.
Progress(completed_operations, total_operations) ==
    (completed_operations * 100) \div total_operations

\* process_batch up to its loops: the guard passed, the progress bar at 0
BatchEntry ==
    [pc |-> "yield",
     file |-> NoPath, fi |-> 0, ei |-> 0, current_input |-> NoPath,
     total_operations |-> Len(batch_files) * Len(effects_queue),
     completed_operations |-> 0,
     calls |-> <<>>, progress |-> <<0>>,
     raised |-> FALSE, went_on |-> FALSE, file_ok |-> TRUE,
     files0 |-> Len(batch_files), effects0 |-> Len(effects_queue)]

\* the outer loop takes the next file of batch_files
TakeFile(fr) ==
    [fr EXCEPT !.file = batch_files[fr.fi + 1], !.fi = @ + 1, !.ei = 0,
               !.current_input = batch_files[fr.fi + 1], !.file_ok = TRUE]

\* the inner loop running over the queue from its end
NextEffect_reversed(fr) == effects_queue[Len(effects_queue) - fr.ei]

\* the effect the inner loop takes next
NextEffect(fr) == effects_queue[fr.ei + 1]

\* a pass of the inner loop in which an error of the engine leaves run() and
\* takes process_batch to its except and finally clauses
BatchCall_aborts(fr, ok) ==
    IF ok
    THEN [fr EXCEPT
            !.pc = "yield",
            !.ei = @ + 1,
            !.current_input = get_temp_path(fr.file),
            !.completed_operations = @ + 1,
            !.calls = Append(@, [fi |-> fr.fi, ei |-> fr.ei + 1, file |-> fr.file,
                                 input_path |-> fr.current_input,
                                 effect_type |-> NextEffect(fr),
                                 output_path |-> get_temp_path(fr.file)]),
            !.progress = Append(@, Progress(fr.completed_operations + 1,
                                            fr.total_operations))]
    ELSE [fr EXCEPT
            !.pc = "finally",
            !.calls = Append(@, [fi |-> fr.fi, ei |-> fr.ei + 1, file |-> fr.file,
                                 input_path |-> fr.current_input,
                                 effect_type |-> NextEffect(fr),
                                 output_path |-> get_temp_path(fr.file)]),
            !.raised = TRUE,
            !.file_ok = FALSE]

\* one pass of the inner loop's body: thread.run() returns whether the engine
\* returned (ok) or raised, then the progress is set and processEvents runs
BatchCall(fr, ok) ==
    LET temp_output == get_temp_path(fr.file)
        completed == fr.completed_operations + 1
    IN [fr EXCEPT
          !.pc = "yield",
          !.ei = @ + 1,
          !.current_input = temp_output,
          !.completed_operations = completed,
          !.calls = Append(@, [fi |-> fr.fi, ei |-> fr.ei + 1, file |-> fr.file,
                               input_path |-> fr.current_input,
                               effect_type |-> NextEffect(fr),
                               output_path |-> temp_output]),
          !.progress = Append(@, Progress(completed, fr.total_operations)),
          !.raised = @ \/ ~ok,
          !.went_on = fr.raised,
          !.file_ok = @ /\ ok]

\* the engine call of one pass on the files: it can return only if its input
\* exists, and then its output exists
EngineCall(fr, ok) ==
    /\ ok => Exists(fr.current_input)
    /\ disk' = IF ok THEN disk \cup {get_temp_path(fr.file)} ELSE disk

Top == frames[Len(frames)]

SetTop(fr) == [frames EXCEPT ![Len(frames)] = fr]

Record(fr) == (fr.file :> fr.current_input) @@ processed_images

\* MainWindow.process_batch from its call to the first processEvents
process_batch(ok) ==
    /\ EventLoop
    /\ batch_files # <<>>
    /\ effects_queue # <<>>
    /\ progress_visible' = TRUE
    /\ LET fr == TakeFile(BatchEntry) IN
         /\ EngineCall(fr, ok)
         /\ frames' = Append(frames, BatchCall(fr, ok))
    /\ UNCHANGED <<current_image, current_processed_image, displayed, batch_files,
                   effects_queue, processed_images, stackVars, taskVars>>

\* processEvents returns and the inner loop has a next effect
batch_next_effect(ok) ==
    /\ frames # <<>>
    /\ Top.pc = "yield"
    /\ Top.ei < Len(effects_queue)
    /\ EngineCall(Top, ok)
    /\ frames' = SetTop(BatchCall(Top, ok))
    /\ UNCHANGED <<windowVars, batch_files, effects_queue, processed_images,
                   stackVars, taskVars>>

\* processEvents returns, the inner loop is over, the file's result is
\* recorded and the outer loop has a next file
batch_next_file(ok) ==
    /\ frames # <<>>
    /\ Top.pc = "yield"
    /\ Top.ei >= Len(effects_queue)
    /\ Top.fi < Len(batch_files)
    /\ processed_images' = Record(Top)
    /\ LET fr == TakeFile(Top) IN
         /\ EngineCall(fr, ok)
         /\ frames' = SetTop(BatchCall(fr, ok))
    /\ UNCHANGED <<windowVars, batch_files, effects_queue, stackVars, taskVars>>

\* the end of the loops loading the last result into the window
batch_loops_done_shows ==
    /\ frames # <<>>
    /\ Top.pc = "yield"
    /\ Top.ei >= Len(effects_queue)
    /\ Top.fi >= Len(batch_files)
    /\ processed_images' = Record(Top)
    /\ load_specific_image(Top.current_input)
    /\ frames' = SetTop([Top EXCEPT !.pc = "finally"])
    /\ UNCHANGED <<current_processed_image, progress_visible, batch_files,
                   effects_queue, stackVars, taskVars, disk>>

\* processEvents returns and both loops are over: the last file's result is
\* recorded (save_button enabled, "Batch processing complete!" logged)
batch_loops_done ==
    /\ frames # <<>>
    /\ Top.pc = "yield"
    /\ Top.ei >= Len(effects_queue)
    /\ Top.fi >= Len(batch_files)
    /\ processed_images' = Record(Top)
    /\ frames' = SetTop([Top EXCEPT !.pc = "finally"])
    /\ UNCHANGED <<windowVars, batch_files, effects_queue, stackVars, taskVars, disk>>

\* the finally clause of process_batch, which then returns
batch_finally ==
    /\ frames # <<>>
    /\ Top.pc = "finally"
    /\ progress_visible' = FALSE
    /\ frames' = SubSeq(frames, 1, Len(frames) - 1)
    /\ UNCHANGED <<current_image, current_processed_image, displayed, batch_files,
                   effects_queue, processed_images, stackVars, taskVars, disk>>

-----------------------------------------------------------------------------
(* Saving the results. *)

\* what QFileDialog.getExistingDirectory returns: "" when the dialog is
\* cancelled
SaveDirs == {"", "out"}

\* Path(save_dir) / f"processed_{Path(original).name}"
SavePath(save_dir, original) ==
    [dir |-> save_dir, name |-> <<"processed_">> \o Basename(original)]

\* the entries of processed_images the for loop has copied when it ends.
\* shutil is bound by the import inside "if self.current_processed_image:"
\* and is a local name of the whole function: without a single-image result
\* the first pass of the loop raises UnboundLocalError.  A copy whose source
\* file is missing raises too, and the passes after it do not run.
LoopCopies ==
    IF current_processed_image = NoPath
    THEN { {} }
    ELSE IF \A o \in DOMAIN processed_images : Exists(processed_images[o])
         THEN { DOMAIN processed_images }
         ELSE { S \in SUBSET DOMAIN processed_images :
                  /\ S # DOMAIN processed_images
                  /\ \A o \in S : Exists(processed_images[o]) }

\* MainWindow.save_processed_images (the "Save All" menu action and
\* save_button): nothing to save returns at once, a cancelled dialog does
\* nothing, and the first exception in the try block ends the copying
save_processed_images(save_dir) ==
    /\ EventLoop
    /\ IF \/ processed_images = <<>> /\ current_processed_image = NoPath
          \/ save_dir = ""
       THEN disk' = disk
       ELSE IF current_processed_image # NoPath /\ ~Exists(current_processed_image)
            THEN disk' = disk
            ELSE \E S \in LoopCopies :
                   disk' = disk
                             \cup (IF current_processed_image # NoPath
                                   THEN {SavePath(save_dir, current_image)} ELSE {})
                             \cup { SavePath(save_dir, o) : o \in S }
    /\ UNCHANGED <<windowVars, batchVars, stackVars, taskVars>>

-----------------------------------------------------------------------------
(* The program. *)

\* MainWindow.__init__ and BatchProcessor.__init__
Init ==
    /\ current_image = NoPath
    /\ current_processed_image = NoPath
    /\ displayed = NoPath
    /\ progress_visible = FALSE
    /\ batch_files = <<>>
    /\ effects_queue = <<>>
    /\ processed_images = <<>>
    /\ undo_stack = <<>>
    /\ index = 0
    /\ running = EmptyBag
    /\ events = <<>>
    /\ disk = {}
    /\ frames = <<>>

\* the state after the user loaded image f, applied the effects es to it one
\* after the other, each task finishing and its result being shown before
\* the next effect was chosen, and put the files fs on the batch list:
\* load_image(<<f>>), then process_image(es[i]), run_finished and
\* processing_complete(TRUE) for each i, then load_batch_images(fs)
Edited(f, es, fs) ==
    /\ current_image = f
    /\ current_processed_image = (IF es = <<>> THEN NoPath ELSE get_temp_path(f))
    /\ displayed = (IF es = <<>> THEN f ELSE get_temp_path(f))
    /\ progress_visible = FALSE
    /\ batch_files = fs
    /\ effects_queue = es
    /\ processed_images = <<>>
    /\ undo_stack = [i \in 1..Len(es) |->
                       [id |-> i, effect_type |-> es[i],
                        old_state |-> ImageState(f, "none"),
                        new_state |-> ImageState(get_temp_path(f), es[i])]]
    /\ index = Len(es)
    /\ running = EmptyBag
    /\ events = <<>>
    /\ disk = (IF es = <<>> THEN {} ELSE {get_temp_path(f)})
    /\ frames = <<>>

\* the sequences over S of the lengths lo..hi
SeqsOf(S, lo, hi) == UNION { [1..n -> S] : n \in lo..hi }

\* fewer than n tasks are in flight
TaskRoom(n) == InFlight < n

\* a redo now would start a task: the command to redo has no new_state yet
RedoStarts ==
    /\ canRedo
    /\ undo_stack[index + 1].new_state = NoState
    /\ current_image # NoPath

\* the steps of an unscripted run leave the script alone
Free(A) == A /\ UNCHANGED script

\* the effect buttons pressed while editing: the handlers store and forward
\* the effect's name and never branch on it
EditEffects == {"blur"}

\* single-image editing: every handler but those of the batch list
EditNext ==
    \/ Free(\E f \in Originals : load_image(<<f>>))
    \/ Free(\E e \in EditEffects :
              Len(effects_queue) < MaxPush /\ TaskRoom(MaxTasks) /\ process_image(e))
    \/ Free(Undo)
    \/ Free((RedoStarts => TaskRoom(MaxTasks)) /\ Redo)
    \/ Free(\E t \in BagToSet(running) : run_finished(t))
    \/ Free(\E t \in BagToSet(running) : run_raised(t))
    \/ Free(\E loadable \in BOOLEAN : processing_complete(loadable))

\* the handlers of the batch list
ListNext ==
    \/ Free(\E fs \in Selections : Len(fs) > 1 /\ load_image(fs))
    \/ Free(\E fs \in Selections : load_batch_images(fs))
    \/ Free(\E i \in 1..MaxFiles : preview_batch_image(i))

\* an activation of process_batch after its start
RunNext ==
    \/ Free(\E ok \in BOOLEAN : batch_next_effect(ok))
    \/ Free(\E ok \in BOOLEAN : batch_next_file(ok))
    \/ Free(batch_loops_done)
    \/ Free(batch_finally)

Next ==
    \/ EditNext
    \/ ListNext
    \/ Free(\E ok \in BOOLEAN : Len(frames) < MaxDepth /\ process_batch(ok))
    \/ RunNext
    \/ Free(\E d \in SaveDirs : save_processed_images(d))

\* the program after construction, no script driving it
FreeInit == Init /\ script = NoScript

\* the whole program
Spec == FreeInit /\ [][Next]_vars

\* the program while the batch list stays empty
SpecEdit == FreeInit /\ [][EditNext]_vars

\* single-image editing with room for one more task in flight than SpecEdit
\* has: a second task can start while the first is running or its finished
\* signal is waiting in the event queue
RaceNext ==
    \/ Free(\E f \in Originals : load_image(<<f>>))
    \/ Free(\E e \in EditEffects :
              Len(effects_queue) < MaxPush /\ TaskRoom(MaxTasks + 1) /\ process_image(e))
    \/ Free(Undo)
    \/ Free((RedoStarts => TaskRoom(MaxTasks + 1)) /\ Redo)
    \/ Free(\E t \in BagToSet(running) : run_finished(t))
    \/ Free(\E t \in BagToSet(running) : run_raised(t))
    \/ Free(\E loadable \in BOOLEAN : processing_complete(loadable))

SpecRace == FreeInit /\ [][RaceNext]_vars

\* single-image editing with the scheduling the platform guarantees: a
\* started worker thread runs to the end of run(), and the event loop of the
\* main thread delivers every queued finished signal
Fairness ==
    /\ WF_vars(Free(\E t \in BagToSet(running) : run_finished(t) \/ run_raised(t)))
    /\ WF_vars(Free(\E loadable \in BOOLEAN : processing_complete(loadable)))

SpecLive == FreeInit /\ [][EditNext]_vars /\ Fairness

\* batch processing, from the states in which an image was edited and the
\* batch list filled, one activation of process_batch at a time, with the
\* handlers that processEvents can run during it: the effect buttons (the
\* tasks they start are still running) and the batch list's file dialog
BatchInit ==
    /\ \E f \in Originals :
         \E es \in SeqsOf(Effects, 1, MaxQueue) :
           \E fs \in SeqsOf(Originals, 0, MaxFiles) : Edited(f, es, fs)
    /\ script = NoScript

BatchNext ==
    \/ Free(\E e \in Effects :
              Len(effects_queue) < MaxPush /\ TaskRoom(MaxTasks) /\ process_image(e))
    \/ Free(\E fs \in Selections : load_batch_images(fs))
    \/ Free(\E ok \in BOOLEAN : frames = <<>> /\ process_batch(ok))
    \/ RunNext

SpecBatch == BatchInit /\ [][BatchNext]_vars

-----------------------------------------------------------------------------
(* A scripted run: an image is loaded, n effects are applied one after the  *)
(* other, each task finishing and its result being shown before the next    *)
(* step, then undo is called n times and redo n times.  script.shown is the *)
(* image on display after the n-th effect.                                  *)

ScriptInit ==
    /\ Init
    /\ \E n \in 1..MaxScript :
         script = [phase |-> "load", n |-> n, k |-> 0, shown |-> NoPath]

ScriptNext ==
    \/ /\ script.phase = "load"
       /\ \E f \in Originals : load_image(<<f>>)
       /\ script' = [script EXCEPT !.phase = "push"]
    \/ /\ script.phase = "push"
       /\ \E e \in Effects : process_image(e)
       /\ script' = [script EXCEPT !.phase = "run"]
    \/ /\ script.phase = "run"
       /\ \E t \in BagToSet(running) : run_finished(t)
       /\ script' = [script EXCEPT !.phase = "complete"]
    \/ /\ script.phase = "complete"
       /\ processing_complete(TRUE)
       /\ script' = IF Len(effects_queue) = script.n
                    THEN [script EXCEPT !.phase = "undo", !.shown = displayed']
                    ELSE [script EXCEPT !.phase = "push"]
    \/ /\ script.phase = "undo"
       /\ Undo
       /\ script' = IF script.k + 1 = script.n
                    THEN [script EXCEPT !.phase = "redo", !.k = 0]
                    ELSE [script EXCEPT !.k = @ + 1]
    \/ /\ script.phase = "redo"
       /\ Redo
       /\ script' = IF script.k + 1 = script.n
                    THEN [script EXCEPT !.phase = "done"]
                    ELSE [script EXCEPT !.k = @ + 1]

SpecUndoRedo == ScriptInit /\ [][ScriptNext]_vars

-----------------------------------------------------------------------------
(* A session: an image is loaded and edited (effects, undo and redo, the    *)
(* worker threads and their signals in any order), then a file is put on    *)
(* the batch list, process_batch runs once and the results are saved.       *)

SessionInit == Init /\ script = [phase |-> "load"]

SessionNext ==
    \/ /\ script.phase = "load"
       /\ \E f \in Originals : load_image(<<f>>)
       /\ script' = [phase |-> "edit"]
    \/ /\ script.phase = "edit"
       /\ \/ Free(\E e \in EditEffects :
                    Len(effects_queue) < MaxPush /\ TaskRoom(MaxTasks) /\ process_image(e))
          \/ Free(Undo)
          \/ Free((RedoStarts => TaskRoom(MaxTasks)) /\ Redo)
          \/ Free(\E t \in BagToSet(running) : run_finished(t))
          \/ Free(\E t \in BagToSet(running) : run_raised(t))
          \/ Free(\E loadable \in BOOLEAN : processing_complete(loadable))
    \/ /\ script.phase = "edit"
       /\ InFlight = 0
       /\ \E f \in Originals : load_batch_images(<<f>>)
       /\ script' = [phase |-> "batch"]
    \/ /\ script.phase = "batch"
       /\ \E ok \in BOOLEAN : process_batch(ok)
       /\ script' = [phase |-> "run"]
    \/ /\ script.phase = "run"
       /\ RunNext
    \/ /\ script.phase = "run"
       /\ frames = <<>>
       /\ \E d \in SaveDirs : save_processed_images(d)
       /\ script' = [phase |-> "saved"]

SpecSession == SessionInit /\ [][SessionNext]_vars

-----------------------------------------------------------------------------
(* Undo and redo: claims C3, C4, C6 under SpecEdit, C5 under SpecUndoRedo. *)

\* the position in undo_stack of the command with identity id, 0 if the
\* stack has deleted it
PositionOf(id) ==
    IF \E p \in DOMAIN undo_stack : undo_stack[p].id = id
    THEN CHOOSE p \in DOMAIN undo_stack : undo_stack[p].id = id
    ELSE 0

\* C3: redo of a command whose new_state is populated starts no processing
\* task and makes no engine call (no task appears, no finished signal, no
\* file written, the progress bar untouched): it only sets the current and
\* the displayed image to new_state.path.
C3_RedoRestoresWithoutEngine ==
    [][(Redo /\ undo_stack[index + 1].new_state # NoState) =>
          /\ running' = running
          /\ events' = events
          /\ disk' = disk
          /\ progress_visible' = progress_visible
          /\ current_image' = undo_stack[index + 1].new_state.path
          /\ displayed' = undo_stack[index + 1].new_state.path]_vars

\* C3's case: the one command of the stack was pushed, its task completed,
\* it was undone and redone: the current image is its result, which only
\* the redo of a populated command brings about
C3_Witness ==
    /\ Len(undo_stack) = 1
    /\ index = 1
    /\ undo_stack[1].new_state # NoState
    /\ current_image = undo_stack[1].new_state.path
    /\ displayed = undo_stack[1].new_state.path
    /\ InFlight = 0

\* C4: the displayed image follows the command at the cursor: an undo shows
\* its old_state path, a redo of a populated command its new_state path, and
\* a completion event for a command that is undone at that moment leaves the
\* displayed image at that command's old_state path.  The code does not keep
\* to the last: processing_complete shows the result whatever the cursor.
C4_DisplayedFollowsCursor ==
    [][/\ Undo => displayed' = undo_stack[index].old_state.path
       /\ (Redo /\ undo_stack[index + 1].new_state # NoState) =>
             displayed' = undo_stack[index + 1].new_state.path
       /\ \A loadable \in BOOLEAN :
            LET p == PositionOf(Head(events).command) IN
              (/\ processing_complete(loadable)
               /\ p > index
               /\ displayed = undo_stack[p].old_state.path)
                 => displayed' = undo_stack[p].old_state.path]_vars

\* C5: after a load, n pushes (each task completing), n undos and n redos,
\* the displayed image path is the one displayed right after the n pushes.
C5_UndoRedoRoundTrip ==
    script.phase = "done" => displayed = script.shown

\* C5's case: the script with 3 pushes has run to its end, and what it shows
\* is the result of an effect
C5_Witness ==
    /\ script.phase = "done"
    /\ script.n = 3
    /\ index = 3
    /\ script.shown = get_temp_path(undo_stack[1].old_state.path)
    /\ displayed = script.shown

\* C6: a push after undos (cursor below the top of the stack, or at it)
\* removes the undone commands, keeps the others, appends the new command as
\* the last entry and executes it (its task starts); the cursor is then at
\* the top of the stack and canRedo() is false: a redo right after does
\* nothing.
C6_PushTruncates ==
    [][\A e \in Effects :
         process_image(e) =>
           /\ Len(undo_stack') = index + 1
           /\ \A p \in 1..index : undo_stack'[p] = undo_stack[p]
           /\ undo_stack'[index + 1].effect_type = e
           /\ \A p \in DOMAIN undo_stack :
                 undo_stack[p].id # undo_stack'[index + 1].id
           /\ \E t \in BagToSet(running') :
                 /\ t.command = undo_stack'[index + 1].id
                 /\ ~BagIn(t, running)
           /\ index' = Len(undo_stack')
           /\ ~canRedo']_vars

\* C6's case: the first command was undone and a second one pushed: the
\* stack holds the second command alone
C6_Witness ==
    /\ Len(undo_stack) = 1
    /\ undo_stack[1].id = 2
    /\ index = 1
    /\ Len(effects_queue) = 2

-----------------------------------------------------------------------------
(* Batch processing: claims C1, C2, C7, C8, C9, C10, under SpecBatch. *)

\* C1: if an engine call of a batch run fails, the run makes no further
\* engine call: no activation has called the engine after a call of it raised.
\* The code does not keep to this: ProcessingThread.run catches the engine's
\* error, so thread.run() returns and the loops go on.
C1_NoCallAfterFailure ==
    \A i \in DOMAIN frames : ~frames[i].went_on

\* C2: a batch run writes processed_images[file] only if every engine call
\* for that file succeeded: a step that records a file's result is taken
\* only when no call for that file raised.  The code does not keep to this.
C2_RecordedOnlyIfAllSucceeded ==
    [][((\E ok \in BOOLEAN : batch_next_file(ok)) \/ batch_loops_done)
          => Top.file_ok]_vars

\* the run of activation fr is a run over batch_files with effects_queue:
\* neither list has grown since it started (nothing ever shrinks them)
RunOver(fr) ==
    /\ fr.files0 = Len(batch_files)
    /\ fr.effects0 = Len(effects_queue)

C8_ChainAndTempPath ==
    \A i \in DOMAIN frames :
      LET fr == frames[i] IN
        \A k \in DOMAIN fr.calls :
          LET c == fr.calls[k]
              temp == [dir |-> TempDir, name |-> <<"temp_">> \o c.file.name]
          IN /\ c.output_path = temp
             /\ c.ei = 1 => c.input_path = c.file
             /\ c.ei > 1 => /\ k > 1
                            /\ fr.calls[k - 1].fi = c.fi
                            /\ fr.calls[k - 1].ei = c.ei - 1
                            /\ c.input_path = fr.calls[k - 1].output_path
             /\ (c.fi < fr.fi \/ fr.pc = "finally") =>
                   /\ c.file \in DOMAIN processed_images
                   /\ processed_images[c.file] = temp

\* C8's case: a run over two different files with at least two effects is
\* over and both files are recorded
C8_Witness ==
    /\ frames # <<>>
    /\ Top.pc = "finally"
    /\ Top.fi = 2
    /\ batch_files[1] # batch_files[2]
    /\ Len(Top.calls) >= 4
    /\ Top.calls[2].ei = 2
    /\ Top.calls[2].input_path = [dir |-> TempDir, name |-> <<"temp_", "a.png">>]
    /\ DOMAIN processed_images = {batch_files[1], batch_files[2]}

\* the progress values activation fr set after its steps (its first value is
\* the 0 set before the loops)
StepValues(fr) == Tail(fr.progress)

\* the runs of 2 files with 3 queued effects at their start
TwoByThree(fr) == fr.files0 = 2 /\ fr.effects0 = 3

\* C9 as stated: in a batch run of 2 files with 3 queued effects the value
\* set after the k-th of the 6 steps is the k-th of 17, 33, 50, 67, 83, 100
C9_RoundedValues ==
    \A i \in DOMAIN frames :
      TwoByThree(frames[i]) =>
        \A k \in 1..6 :
          k <= Len(StepValues(frames[i])) =>
            StepValues(frames[i])[k] = <<17, 33, 50, 67, 83, 100>>[k]

\* C9 as amended: in a batch run of 2 files with 3 queued effects the value
\* set after the k-th of the 6 steps is the k-th of 16, 33, 50, 66, 83, 100,
\* the percentage k/6*100 truncated to an integer
C9_TruncatedValues ==
    \A i \in DOMAIN frames :
      TwoByThree(frames[i]) =>
        \A k \in 1..6 :
          k <= Len(StepValues(frames[i])) =>
            StepValues(frames[i])[k] = <<16, 33, 50, 66, 83, 100>>[k]

\* C9's case: a run of 2 files with 3 effects has made its 6 steps
C9_Witness ==
    /\ frames # <<>>
    /\ TwoByThree(Top)
    /\ RunOver(Top)
    /\ Top.pc = "finally"
    /\ Len(StepValues(Top)) = 6

\* C10: every progress value a batch run sets is in 0..100, the values of a
\* run never decrease, and 100 is set at the last step of the run and at no
\* other.  The code does not keep to this when an effect button is pressed
\* inside processEvents: the queue grows, the total does not.
C10_ProgressWithinRange ==
    \A i \in DOMAIN frames :
      LET pr == frames[i].progress IN
        /\ \A k \in DOMAIN pr : pr[k] \in 0..100
        /\ \A k \in 1..(Len(pr) - 1) : pr[k] <= pr[k + 1] /\ pr[k] # 100
        /\ frames[i].pc = "finally" => pr[Len(pr)] = 100

-----------------------------------------------------------------------------
(* Asynchronous tasks and their commands: claims C11, C12 under SpecRace,   *)
(* C13 under SpecLive.                                                      *)

\* C11: new_state of a command is written at most once: a completion that
\* writes the new_state of a command on the stack finds it empty.  The code
\* does not keep to this: a redo before the first task's completion was
\* handled starts a second task for the command, and both completions write.
C11_NewStateWrittenOnce ==
    [][processing_complete(TRUE) =>
         LET p == PositionOf(Head(events).command) IN
           p > 0 => undo_stack[p].new_state = NoState]_vars

\* the tasks in flight for the command with identity id: the running ones
\* and those whose finished signal is not handled yet
RunningFor(id) == { t \in BagToSet(running) : t.command = id }

SignalsFor(id) == { i \in DOMAIN events : events[i].command = id }

\* C12: at most one asynchronous task per command is in flight at any time.
\* The code does not keep to this: redo of a command whose new_state is
\* still empty starts another task.
C12_OneTaskPerCommand ==
    \A id \in 1..Len(effects_queue) :
      /\ \A t \in RunningFor(id) : CopiesIn(t, running) = 1
      /\ Cardinality(RunningFor(id)) + Cardinality(SignalsFor(id)) <= 1

\* C13: every started asynchronous task eventually delivers a terminal
\* outcome to the window, so that a progress bar that is shown is eventually
\* hidden, also when the engine raises.  The code does not keep to this: run
\* logs the engine's error and emits nothing, and the bar stays.
C13_ProcessingEventuallyEnds ==
    progress_visible ~> ~progress_visible

-----------------------------------------------------------------------------
(* Errors of the engine and invalid results: claims C14, C15 under SpecEdit. *)

\* C14: when the engine raises in an asynchronous task, the task emits no
\* finished signal, and the step leaves every command's new_state (so the
\* task's command stays as it was), the displayed image and
\* current_processed_image as they were.
C14_RaiseEmitsNothing ==
    [][(\E t \in BagToSet(running) : run_raised(t)) =>
          /\ events' = events
          /\ undo_stack' = undo_stack
          /\ displayed' = displayed
          /\ current_processed_image' = current_processed_image]_vars

\* C14's case: the one task ever started has ended, no signal is queued, and
\* its command has no new_state: the engine raised
C14_Witness ==
    /\ Len(effects_queue) = 1
    /\ Len(undo_stack) = 1
    /\ index = 1
    /\ running = EmptyBag
    /\ events = <<>>
    /\ progress_visible
    /\ undo_stack[1].new_state = NoState
    /\ displayed = undo_stack[1].old_state.path
    /\ current_processed_image = NoPath

\* C15: when the result path of a finished signal does not exist or does
\* not decode, processing_complete leaves the displayed image, current_image,
\* current_processed_image and every command's new_state as they were.
C15_InvalidResultKeepsState ==
    [][processing_complete(FALSE) =>
          /\ displayed' = displayed
          /\ current_image' = current_image
          /\ current_processed_image' = current_processed_image
          /\ undo_stack' = undo_stack]_vars

\* C15's case: the one task ever started finished, its signal was handled
\* (the progress bar is hidden again), and nothing of the result is shown
C15_Witness ==
    /\ Len(effects_queue) = 1
    /\ Len(undo_stack) = 1
    /\ index = 1
    /\ running = EmptyBag
    /\ events = <<>>
    /\ ~progress_visible
    /\ undo_stack[1].new_state = NoState
    /\ displayed = current_image
    /\ current_processed_image = NoPath

-----------------------------------------------------------------------------
(* The batch run and the rest of the window: claims C17, C18 under SpecBatch. *)

\* a step of process_batch that calls the engine, the call raising
FailingBatchStep ==
    \/ process_batch(FALSE)
    \/ batch_next_effect(FALSE)
    \/ batch_next_file(FALSE)

\* any step of process_batch
BatchStep ==
    \/ \E ok \in BOOLEAN : process_batch(ok)
    \/ \E ok \in BOOLEAN : batch_next_effect(ok)
    \/ \E ok \in BOOLEAN : batch_next_file(ok)
    \/ batch_loops_done
    \/ batch_finally

\* C17: an error of the engine stays inside ProcessingThread.run: the batch
\* loop sees no exception.  The pass in which the engine raised ends like
\* any other: the step is counted, the progress set, processEvents entered,
\* and the activation is still in its loops.
C17_EngineErrorContained ==
    [][FailingBatchStep =>
          /\ Len(frames') = Len(frames) + (IF process_batch(FALSE) THEN 1 ELSE 0)
          /\ frames'[Len(frames')].pc = "yield"
          /\ frames'[Len(frames')].raised
          /\ Len(frames'[Len(frames')].progress) =
                Len(frames'[Len(frames')].calls) + 1
          /\ frames'[Len(frames')].completed_operations =
                Len(frames'[Len(frames')].calls)]_vars

\* C17's case: the engine raised in a run, and the run went on to call the
\* engine again and to its regular end
C17_Witness ==
    /\ frames # <<>>
    /\ Top.pc = "finally"
    /\ Top.raised
    /\ Top.went_on
    /\ Top.completed_operations = Top.total_operations
    /\ Top.total_operations >= 2

\* C18: a batch run bypasses the command stack: every step of process_batch
\* leaves the undo history (commands, their states, the cursor),
\* current_image, current_processed_image and the displayed image unchanged,
\* and starts no asynchronous task.
C18_BatchBypassesStack ==
    [][BatchStep =>
          /\ undo_stack' = undo_stack
          /\ index' = index
          /\ current_image' = current_image
          /\ current_processed_image' = current_processed_image
          /\ displayed' = displayed
          /\ running' = running
          /\ events' = events]_vars

\* C18's case: a batch run over two files is over, its results are recorded,
\* and the history of the edits made before it is there
C18_Witness ==
    /\ frames = <<>>
    /\ DOMAIN processed_images # {}
    /\ Len(batch_files) = 2
    /\ Len(undo_stack) >= 2
    /\ index = Len(undo_stack)
    /\ undo_stack[1].new_state # NoState
    /\ current_processed_image = undo_stack[1].new_state.path

-----------------------------------------------------------------------------
(* Effects applied one after the other: claim C19 under SpecUndoRedo, C20   *)
(* under SpecEdit.                                                          *)

\* C19: when effects are applied one after the other, each task completing
\* before the next push and no undo or redo in between, a command's
\* old_state.path and the input of its engine call are the new_state.path of
\* the command before it, and a single undo afterwards displays the result
\* of the effect before the last.  The code does not keep to this:
\* processing_complete never sets current_image, so every command starts
\* from the loaded image.
C19_SecondStartsFromFirstResult ==
    /\ \A p \in 2..Len(undo_stack) :
         undo_stack[p].old_state.path = undo_stack[p - 1].new_state.path
    /\ \A t \in BagToSet(running) :
         t.command > 1 => t.input_path = undo_stack[t.command - 1].new_state.path
    /\ (script.phase = "undo" /\ script.k = 1 /\ script.n >= 2) =>
         displayed = undo_stack[script.n - 1].new_state.path

\* C20: once a command's new_state is populated, no later task writes to
\* the file at new_state.path while the command is on the stack.  The code
\* does not keep to this: every task on an image of the same name writes
\* to the same <temp_dir>/temp_<basename>.
C20_ResultFileNotRewritten ==
    [][\A t \in BagToSet(running) :
         run_finished(t) =>
           \A p \in DOMAIN undo_stack :
             undo_stack[p].new_state # NoState =>
               t.output_path # undo_stack[p].new_state.path]_vars

-----------------------------------------------------------------------------
(* The batch queue and the saved results: claims C21 and C22 under          *)
(* SpecSession.                                                             *)

\* a step of single-image editing other than an effect button, or a step of
\* process_batch
NotAnEffectButton ==
    \/ Undo
    \/ Redo
    \/ \E t \in BagToSet(running) : run_finished(t)
    \/ \E t \in BagToSet(running) : run_raised(t)
    \/ \E loadable \in BOOLEAN : processing_complete(loadable)
    \/ BatchStep

\* C21: the batch queue is append-only with respect to single-image
\* editing: each process_image call appends its effect's name exactly once;
\* undo, redo, the end of a task, the delivery of its signal and every step
\* of process_batch leave the queue unchanged; and every engine call of a
\* batch run applies the effect at its position of the queue, whether the
\* command that queued it is undone or not.
C21_QueueAppendOnly ==
    [][/\ \A e \in Effects :
            process_image(e) => effects_queue' = Append(effects_queue, e)
       /\ NotAnEffectButton => effects_queue' = effects_queue
       /\ \A i \in DOMAIN frames' :
            \A k \in DOMAIN frames'[i].calls :
              LET c == frames'[i].calls[k]
              IN /\ c.ei \in DOMAIN effects_queue'
                 /\ c.effect_type = effects_queue'[c.ei]]_vars

\* C21's case: an effect was applied to the image and undone, so that no
\* command is done any more, and a batch run is over in which the engine
\* was called with that effect
C21_Witness ==
    /\ frames # <<>>
    /\ Top.pc = "finally"
    /\ index = 0
    /\ Len(undo_stack) = 1
    /\ undo_stack[1].new_state # NoState
    /\ effects_queue = <<undo_stack[1].effect_type>>
    /\ Len(Top.calls) = 1
    /\ Top.calls[1].effect_type = undo_stack[1].effect_type

\* C22: when a destination directory is chosen and no copy fails (the source
\* file of every copy exists), save_processed_images copies every entry of
\* processed_images to <dir>/processed_<basename of the original file>,
\* whether or not there is a single-image result.  The code does not keep to
\* this: without a single-image result shutil is unbound in the loop, its
\* first pass raises, and nothing is copied.
C22_EveryEntryCopied ==
    [][\A d \in SaveDirs \ {""} :
         ( /\ save_processed_images(d)
           /\ current_processed_image # NoPath => Exists(current_processed_image)
           /\ \A o \in DOMAIN processed_images : Exists(processed_images[o]) )
         => \A o \in DOMAIN processed_images : SavePath(d, o) \in disk']_vars

=============================================================================
